---- MODULE Spec2Model ----
(***************************************************************************)
(* Model of the bitcoinswitch extension: the payment-to-activation         *)
(* pipeline.  The quoting handlers (views_lnurl.py), the settlement stage  *)
(* (tasks.py), the ledger and registry operations (crud.py, views_api.py)  *)
(* and the rate service (services/rate_service.py).                         *)
(*                                                                         *)
(* Conventions.                                                            *)
(*  - An Optional value is a sequence of length at most one: None is <<>>, *)
(*    a present value v is <<v>>.  A dictionary key that is absent is      *)
(*    None.                                                                *)
(*  - A table is a function whose domain is the set of ids of its rows.    *)
(*  - Logging is not modelled, except where evaluating the message raises *)
(*    (views_lnurl.py:68).  The storage layer is modelled as a row         *)
(*    store: a column the code does not pass is unset (None), and the      *)
(*    device row carries every column the handlers read (password,         *)
(*    disabled, disposable).                                               *)
(*  - A float is a rational [num, den] with den > 0; the model's value     *)
(*    sets keep every comparison of quotients exact.                       *)
(*  - An arguments record and a return value (args, result) carry the      *)
(*    calls of the pure functions of the rate service.                     *)
(***************************************************************************)
EXTENDS Integers, Sequences, FiniteSets, TLC

None == <<>>
Some(v) == <<v>>
Val(o) == o[1]

\* Python's str() of an Optional[str] inside an f-string.
PyStr(o) == IF o = None THEN "None" ELSE Val(o)

\* Python truthiness of an Optional[str].
Truthy(o) == o # None /\ Val(o) # ""

(***************************************************************************)
(* Bounds and value sets.                                                  *)
(***************************************************************************)
MaxDeliveries == 3
MaxPipelineDeliveries == 2
MaxQuoteDeliveries == 2
MaxTime == 2

\* Seconds per clock tick of the model.
TickSeconds == 200
MaxClock == 91

DevIds == {"d1", "d2"}
PayIds == {"p1", "p2"}
Hashes == {"h1", "h2"}
Wallets == {"w1"}
AssetIds == {"a1", "b2"}
Pins == {1, 3}
DurationValues == {1500, 3000, 5000}

\* The payment_hash a row is created with before its invoice is known.
AwaitingHash == "not yet set"

\* services/rate_service.py:12-14
RATE_TOLERANCE_PCT == 5
RATE_VALIDITY_MINUTES == 5
RATE_REFRESH_SECONDS == 60

VARIABLES
    switch_table,           \* table bitcoinswitch.switch: device id -> device row
    used_ids,               \* ids urlsafe_short_hash has handed out for devices
    payment_table,          \* table bitcoinswitch.payment: payment id -> payment row
    invoices,               \* invoices created through create_invoice / create_taproot_invoice
    connections,            \* device ids with an open websocket (websocket_manager)
    invoice_queue,          \* the asyncio.Queue of wait_for_paid_invoices
    delivered,              \* number of confirmations put on the queue so far
    pc,                     \* position of the consumer task
    payment,                \* the Payment the consumer took last
    bitcoinswitch_payment,  \* on_invoice_paid's local copy of the payment row
    payload,                \* on_invoice_paid's local payload string
    outcome,                \* how the last run of on_invoice_paid ended
    sink,                   \* the calls made to websocket_updater, in order
    response,               \* the response of the last quote/callback request
    now,                    \* the clock, in ticks
    rfq,                    \* the RFQ peer: asset id -> Optional msat per asset unit
    rate_cache,             \* rate_service.rate_cache
    fiat_rate,              \* sats per unit of a fiat currency (lnbits exchange rates)
    TAPROOT_AVAILABLE,      \* views_lnurl's import-time flag
    args,                   \* the arguments of a call of a RateService function
    result                  \* what that call returned (None before it returns)

vars == <<switch_table, used_ids, payment_table, invoices, connections,
          invoice_queue, delivered, pc, payment, bitcoinswitch_payment, payload,
          outcome, sink, response, now, rfq, rate_cache, fiat_rate,
          TAPROOT_AVAILABLE, args, result>>

registry_vars == <<switch_table, used_ids, connections>>
consumer_vars == <<pc, payment, bitcoinswitch_payment, payload, outcome, sink>>
quote_vars == <<now, rfq, rate_cache, fiat_rate, TAPROOT_AVAILABLE>>
call_vars == <<args, result>>

(***************************************************************************)
(* models.py                                                               *)
(***************************************************************************)
\* models.Switch
Switch(amount, duration, pin, comment, variable, accepts_assets, accepted_asset_ids) ==
    [amount |-> amount, duration |-> duration, pin |-> pin, comment |-> comment,
     variable |-> variable, accepts_assets |-> accepts_assets,
     accepted_asset_ids |-> accepted_asset_ids]

\* models.BitcoinswitchPayment: a row of the payment table; the Taproot and quote
\* columns take their defaults.
BitcoinswitchPayment(id, payment_hash, bitcoinswitch_id, a_payload, pin, sats) ==
    [id |-> id, payment_hash |-> payment_hash, bitcoinswitch_id |-> bitcoinswitch_id,
     payload |-> a_payload, pin |-> pin, sats |-> sats,
     is_taproot |-> FALSE, asset_id |-> None,
     quoted_rate |-> None, quoted_at |-> None, asset_amount |-> None]

(***************************************************************************)
(* tasks.py: the pure part                                                 *)
(***************************************************************************)
\* int(s) of a duration string: the number it denotes, None when it denotes none
\* (ValueError).
ParseInt(s) ==
    IF \E n \in DurationValues \cup {0} : ToString(n) = s
    THEN Some(CHOOSE n \in DurationValues \cup {0} : ToString(n) = s)
    ELSE None

RECURSIVE FracDigits(_, _)
FracDigits(r, den) ==
    LET d == (r * 10) \div den
        rest == (r * 10) % den
    IN ToString(d) \o (IF rest = 0 THEN "" ELSE FracDigits(rest, den))

\* str() of the float num/den (den > 0, num >= 0) with a terminating expansion.
FloatStr(num, den) ==
    LET q == num \div den
        r == num % den
    IN ToString(q) \o "." \o (IF r = 0 THEN "0" ELSE FracDigits(r, den))

\* calculate_variable_payload without its guard on base_sats and without the
\* handler of ZeroDivisionError.
calculate_variable_payload_unguarded(base_payload, base_sats, payment_amount) ==
    IF base_payload = None THEN [exc |-> "TypeError", val |-> None]
    ELSE IF ParseInt(Val(base_payload)) = None THEN [exc |-> "", val |-> None]
    ELSE IF base_sats <= 0 THEN [exc |-> "ZeroDivisionError", val |-> None]
    ELSE [exc |-> "",
          val |-> Some(FloatStr(Val(ParseInt(Val(base_payload))) * payment_amount,
                                base_sats))]

\* tasks.calculate_variable_payload.  exc is the exception that escapes it
\* ("" when none does), val its return value.
calculate_variable_payload(base_payload, base_sats, payment_amount) ==
    IF base_sats <= 0 THEN [exc |-> "", val |-> None]
    ELSE IF base_payload = None THEN [exc |-> "TypeError", val |-> None]
    ELSE IF ParseInt(Val(base_payload)) = None THEN [exc |-> "", val |-> None]
    ELSE [exc |-> "",
          val |-> Some(FloatStr(Val(ParseInt(Val(base_payload))) * payment_amount,
                                base_sats))]

\* tasks.py:139-157: the duration part of the command for a run whose row is rec.
DurationPayload(rec, extra) ==
    IF ~extra.variable THEN [exc |-> "", val |-> rec.payload]
    ELSE IF ~extra.is_taproot /\ extra.amount = None THEN [exc |-> "KeyError", val |-> None]
    ELSE LET amount == IF extra.is_taproot
                       THEN IF extra.asset_amount # None THEN Val(extra.asset_amount)
                            ELSE IF extra.amount # None THEN Val(extra.amount) ELSE 0
                       ELSE Val(extra.amount)
             r == calculate_variable_payload(rec.payload, rec.sats, amount)
         IN IF r.exc # "" THEN r
            ELSE IF r.val = None \/ Val(r.val) = "" THEN [exc |-> "", val |-> Some(ToString(amount))]
            ELSE r

\* The command string with the comment joined by a blank instead of a hyphen.
CommandPayloadBlank(pin, duration, comment) ==
    LET base == ToString(pin) \o "-" \o PyStr(duration)
    IN IF Truthy(comment) THEN base \o " " \o Val(comment) ELSE base

\* tasks.py:159-162: the command string.
CommandPayload(pin, duration, comment) ==
    LET base == ToString(pin) \o "-" \o PyStr(duration)
    IN IF Truthy(comment) THEN base \o "-" \o Val(comment) ELSE base

(***************************************************************************)
(* services/rate_service.py                                                *)
(***************************************************************************)
RECURSIVE Gcd(_, _)
Gcd(a, b) == IF b = 0 THEN a ELSE Gcd(b, a % b)

\* The float num/den, in lowest terms.
Rate(num, den) ==
    LET g == Gcd(num, den)
    IN IF g = 0 THEN [num |-> 0, den |-> 1] ELSE [num |-> num \div g, den |-> den \div g]

\* A datetime: the seconds its wall clock shows and its tzinfo, the offset of its
\* zone from UTC in seconds (None for a naive datetime).
Datetime(wall, tz) == [wall |-> wall, tz |-> tz]

\* The instant an aware datetime denotes, in seconds of UTC.
Instant(dt) == dt.wall - Val(dt.tz)

\* datetime.now(timezone.utc)
utcnow == Datetime(now * TickSeconds, Some(0))

\* get_current_rate 33-39 with <= for <: an entry is served up to and including
\* the TTL.
CachedRateInclusive(cached, t) ==
    IF cached # None
         /\ Instant(t) - Instant(Val(cached).timestamp) <= RATE_REFRESH_SECONDS
    THEN Some(Val(cached).rate)
    ELSE None

\* get_current_rate 33-39: the rate of the cache entry when the call at the
\* datetime t is served from the cache, None when it is not.
CachedRate(cached, t) ==
    IF cached # None
         /\ Instant(t) - Instant(Val(cached).timestamp) < RATE_REFRESH_SECONDS
    THEN Some(Val(cached).rate)
    ELSE None

\* What the services that the RFQ lookup calls do: no peer has a channel for
\* the asset ("no_peer"), the peer accepts no quote ("no_quote"), one of the
\* calls raises ("exception": an import that fails, a gRPC error, the timeout
\* of AddAssetBuyOrder), or the peer quotes unit millisats per unit ("quote").
Answer(kind, unit) == [kind |-> kind, unit |-> unit]

\* get_current_rate 41-127, the body of the try: raised when an exception leaves
\* it, otherwise the cache entry it has written (None when it has written none).
\* An asset_amount of 0 makes the division of line 107 raise ZeroDivisionError.
TryFetchRate(answer, asset_amount, t) ==
    IF answer.kind = "exception" THEN [raised |-> TRUE, entry |-> None]
    ELSE IF answer.kind # "quote" THEN [raised |-> FALSE, entry |-> None]
    ELSE IF asset_amount = 0 THEN [raised |-> TRUE, entry |-> None]
    ELSE [raised |-> FALSE,
          entry |-> Some([rate |-> Rate(answer.unit * asset_amount, asset_amount * 1000),
                          timestamp |-> t])]

\* A function without the except clause: what is raised in the body leaves it.
ExceptNothing(attempt) == attempt

\* get_current_rate 128-130: except Exception: return None.
ExceptException(attempt) == [raised |-> FALSE, entry |-> attempt.entry]

\* get_current_rate 41-130: the RFQ lookup that answers at the datetime t, quote
\* being the total price in millisats the peer quotes for one unit (None when it
\* gives none).  The cache entry of an accepted quote; None on every failure.
FetchRate(quote, asset_amount, t) ==
    ExceptException(TryFetchRate(IF quote = None THEN Answer("no_quote", 0)
                                 ELSE Answer("quote", Val(quote)),
                                 asset_amount, t)).entry

\* RateService.get_current_rate(asset_id, ..., asset_amount): the rate returned
\* (None on every failure) and the rate cache it leaves behind.
get_current_rate(asset_id, asset_amount) ==
    LET hit == CachedRate(rate_cache[asset_id], utcnow)
        fetched == FetchRate(rfq[asset_id], asset_amount, utcnow)
    IN IF hit # None THEN [rate |-> hit, cache |-> rate_cache]
       ELSE IF fetched = None THEN [rate |-> None, cache |-> rate_cache]
       ELSE [rate |-> Some(Val(fetched).rate),
             cache |-> [rate_cache EXCEPT ![asset_id] = fetched]]

\* One call of get_current_rate at the datetime t with the cache entry cached of
\* the asset: the rate returned, whether an exception leaves the call, and the
\* cache entry of the asset after the call.
GetCurrentRate(cached, t, answer, asset_amount) ==
    LET hit == CachedRate(cached, t)
        attempt == ExceptException(TryFetchRate(answer, asset_amount, t))
    IN IF hit # None THEN [rate |-> hit, raised |-> FALSE, entry |-> cached]
       ELSE IF attempt.entry = None
       THEN [rate |-> None, raised |-> attempt.raised, entry |-> cached]
       ELSE [rate |-> Some(Val(attempt.entry).rate), raised |-> attempt.raised,
             entry |-> attempt.entry]

\* is_rate_within_tolerance without abs(): only an upward move is measured.
is_rate_within_tolerance_upward(quoted_rate, current_rate, tolerance_pct) ==
    IF quoted_rate.num <= 0 THEN FALSE
    ELSE LET diff == current_rate.num * quoted_rate.den - quoted_rate.num * current_rate.den
         IN diff * 100 <= tolerance_pct * quoted_rate.num * current_rate.den

\* RateService.is_rate_within_tolerance, tolerance in percent.
is_rate_within_tolerance(quoted_rate, current_rate, tolerance_pct) ==
    IF quoted_rate.num <= 0 THEN FALSE
    ELSE LET diff == current_rate.num * quoted_rate.den - quoted_rate.num * current_rate.den
             absdiff == IF diff < 0 THEN 0 - diff ELSE diff
         IN absdiff * 100 <= tolerance_pct * quoted_rate.num * current_rate.den

\* is_rate_expired with the boundary counted as expired.
is_rate_expired_inclusive(quoted_at, t) ==
    IF quoted_at = None THEN TRUE
    ELSE LET aware == IF Val(quoted_at).tz = None
                      THEN [Val(quoted_at) EXCEPT !.tz = Some(0)]
                      ELSE Val(quoted_at)
         IN Instant(t) - Instant(aware) >= RATE_VALIDITY_MINUTES * 60

\* is_rate_expired with a naive quoted_at read in the zone of the server, one
\* hour east of UTC.
is_rate_expired_local(quoted_at, t) ==
    IF quoted_at = None THEN TRUE
    ELSE LET aware == IF Val(quoted_at).tz = None
                      THEN [Val(quoted_at) EXCEPT !.tz = Some(3600)]
                      ELSE Val(quoted_at)
         IN Instant(t) - Instant(aware) > RATE_VALIDITY_MINUTES * 60

\* RateService.is_rate_expired; t is datetime.now(timezone.utc).
is_rate_expired(quoted_at, t) ==
    IF quoted_at = None THEN TRUE
    ELSE LET aware == IF Val(quoted_at).tz = None
                      THEN [Val(quoted_at) EXCEPT !.tz = Some(0)]
                      ELSE Val(quoted_at)
         IN Instant(t) - Instant(aware) > RATE_VALIDITY_MINUTES * 60

(***************************************************************************)
(* views_api.py and crud.py: the switch registry                           *)
(***************************************************************************)
\* models.py:35-51: the validators of Switch.
ValidSwitch(switch) == switch.amount >= 0 /\ switch.duration >= 0 /\ switch.pin >= 0

\* models.py:76-80 and the validation of every element of switches: the request
\* bodies that reach api_bitcoinswitch_create and api_bitcoinswitch_update.
ValidCreateBitcoinswitch(data) ==
    /\ data.switches # <<>>
    /\ \A i \in 1..Len(data.switches) : ValidSwitch(data.switches[i])

\* crud.create_bitcoinswitch, called by api_bitcoinswitch_create.
create_bitcoinswitch(id, data) ==
    /\ switch_table' = [d \in DOMAIN switch_table \cup {id} |->
                          IF d = id
                          THEN [id |-> id, wallet |-> data.wallet, currency |-> data.currency,
                                switches |-> data.switches, password |-> data.password,
                                disabled |-> data.disabled, disposable |-> data.disposable]
                          ELSE switch_table[d]]
    /\ used_ids' = used_ids \cup {id}

\* ids: the identifiers urlsafe_short_hash may still return.
api_bitcoinswitch_create(datas, ids) ==
    \E data \in datas :
        /\ ids \ used_ids # {}
        /\ create_bitcoinswitch(CHOOSE id \in ids \ used_ids : TRUE, data)
        /\ UNCHANGED <<payment_table, invoices, connections, invoice_queue, delivered,
                       response>>
        /\ UNCHANGED consumer_vars
        /\ UNCHANGED quote_vars
        /\ UNCHANGED call_vars

\* api_bitcoinswitch_update: every field of data that is not None is set, then
\* crud.update_bitcoinswitch writes the row.  wallets: the wallets of the admin
\* keys that are presented; a key of another wallet is refused.
api_bitcoinswitch_update(datas, wallets) ==
    \E data \in datas : \E id \in DOMAIN switch_table :
        /\ switch_table[id].wallet \in wallets
        /\ switch_table' = [switch_table EXCEPT ![id] =
               [@ EXCEPT !.wallet = data.wallet, !.currency = data.currency,
                         !.switches = data.switches,
                         !.password = IF data.password # None THEN data.password ELSE @,
                         !.disabled = data.disabled, !.disposable = data.disposable]]
        /\ UNCHANGED <<used_ids, payment_table, invoices, connections, invoice_queue,
                       delivered, response>>
        /\ UNCHANGED consumer_vars
        /\ UNCHANGED quote_vars
        /\ UNCHANGED call_vars

\* api_bitcoinswitch_delete -> crud.delete_bitcoinswitch.
api_bitcoinswitch_delete ==
    \E id \in DOMAIN switch_table :
        /\ switch_table' = [d \in DOMAIN switch_table \ {id} |-> switch_table[d]]
        /\ UNCHANGED <<used_ids, payment_table, invoices, connections, invoice_queue,
                       delivered, response>>
        /\ UNCHANGED consumer_vars
        /\ UNCHANGED quote_vars
        /\ UNCHANGED call_vars

\* A device opens or closes its websocket (websocket_manager's connections).
websocket_connect ==
    \E id \in DOMAIN switch_table :
        /\ connections' = IF id \in connections THEN connections \ {id}
                          ELSE connections \cup {id}
        /\ UNCHANGED <<switch_table, used_ids, payment_table, invoices, invoice_queue,
                       delivered, response>>
        /\ UNCHANGED consumer_vars
        /\ UNCHANGED quote_vars
        /\ UNCHANGED call_vars

(***************************************************************************)
(* crud.py: the payment ledger                                             *)
(***************************************************************************)
\* db.insert of a new row.
InsertPayment(table, row) ==
    [p \in DOMAIN table \cup {row.id} |-> IF p = row.id THEN row ELSE table[p]]

\* urlsafe_short_hash(): an id no row of the table has.
FreshId(table) == CHOOSE id \in PayIds \ DOMAIN table : TRUE

\* An UPDATE without its WHERE clause: the new payment_hash reaches every row.
UpdatePaymentUnkeyed(table, row) ==
    [p \in DOMAIN table |-> [table[p] EXCEPT !.payment_hash = row.payment_hash]]

\* db.update of a row, by id; no row with that id, nothing written.
UpdatePayment(table, row) ==
    IF row.id \in DOMAIN table THEN [table EXCEPT ![row.id] = row] ELSE table

\* crud.create_switch_payment: the row it inserts.
create_switch_payment(id, payment_hash, switch_id, pin, amount_msat) ==
    BitcoinswitchPayment(id, Some(payment_hash), switch_id, None, pin,
                         amount_msat \div 1000)

\* crud.create_bitcoinswitch_payment, called with a payload.
create_bitcoinswitch_payment(payment_hashes, payloads, pins, sats) ==
    \E dev \in used_ids : \E payment_hash \in payment_hashes :
    \E a_payload \in payloads : \E pin \in pins : \E amount_sats \in sats :
        /\ PayIds \ DOMAIN payment_table # {}
        /\ payment_table' = InsertPayment(payment_table,
               BitcoinswitchPayment(FreshId(payment_table), Some(payment_hash), dev,
                                    Some(a_payload), pin,
                                    (amount_sats * 1000) \div 1000))
        /\ UNCHANGED <<invoices, invoice_queue, delivered, response>>
        /\ UNCHANGED registry_vars
        /\ UNCHANGED consumer_vars
        /\ UNCHANGED quote_vars
        /\ UNCHANGED call_vars

(***************************************************************************)
(* tasks.py: the invoice listener and the settlement stage                 *)
(***************************************************************************)
\* Payment.extra: the keys on_invoice_paid reads.
Extra(is_taproot, id, tag, variable, amount, asset_amount, comment) ==
    [is_taproot |-> is_taproot, id |-> id, tag |-> tag, variable |-> variable,
     amount |-> amount, asset_amount |-> asset_amount, comment |-> comment]

\* The invoice listener puts a paid invoice on the queue (register_invoice_listener):
\* every paid invoice of the LNbits instance arrives, an invoice of this extension
\* (from the invoices table) as well as any other one (extras), and may arrive again.
deliver(extras, limit) ==
    /\ delivered < limit
    /\ \E p \in {[payment_hash |-> h, extra |-> invoices[h]] : h \in DOMAIN invoices}
              \cup {[payment_hash |-> "hx", extra |-> e] : e \in extras} :
           invoice_queue' = Append(invoice_queue, p)
    /\ delivered' = delivered + 1
    /\ UNCHANGED <<payment_table, invoices, response>>
    /\ UNCHANGED registry_vars
    /\ UNCHANGED consumer_vars
    /\ UNCHANGED quote_vars
    /\ UNCHANGED call_vars

\* A check that looks at the id alone, whatever the tag is.
IgnoredByIdOnly(extra) == ~Truthy(extra.id)

\* tasks.py:102-112: the confirmations on_invoice_paid returns from at once.
Ignored(extra) ==
    IF extra.is_taproot THEN ~Truthy(extra.id) ELSE extra.tag # Some("Switch")

\* A consumer that starts one task per payment: it takes the next payment while a
\* run is still in progress.
wait_for_paid_invoices_task ==
    /\ invoice_queue # <<>>
    /\ LET p == Head(invoice_queue)
           ignored == Ignored(p.extra)
       IN /\ invoice_queue' = Tail(invoice_queue)
          /\ payment' = Some(p)
          /\ pc' = IF ignored THEN "idle" ELSE "get_payment"
          /\ outcome' = IF ignored THEN "ignored" ELSE "running"
    /\ UNCHANGED <<bitcoinswitch_payment, payload, sink>>
    /\ UNCHANGED <<payment_table, invoices, delivered, response>>
    /\ UNCHANGED registry_vars
    /\ UNCHANGED quote_vars
    /\ UNCHANGED call_vars

\* tasks.py:41-42 and 102-112: the consumer takes a payment and on_invoice_paid
\* runs up to its first await.
wait_for_paid_invoices ==
    /\ pc = "idle"
    /\ invoice_queue # <<>>
    /\ LET p == Head(invoice_queue)
           ignored == Ignored(p.extra)
       IN /\ invoice_queue' = Tail(invoice_queue)
          /\ payment' = Some(p)
          /\ pc' = IF ignored THEN "idle" ELSE "get_payment"
          /\ outcome' = IF ignored THEN "ignored" ELSE "running"
    /\ UNCHANGED <<bitcoinswitch_payment, payload, sink>>
    /\ UNCHANGED <<payment_table, invoices, delivered, response>>
    /\ UNCHANGED registry_vars
    /\ UNCHANGED quote_vars
    /\ UNCHANGED call_vars

\* on_invoice_paid without the guard of tasks.py:120: a row that holds "paid" is
\* processed like any other.
get_bitcoinswitch_payment_unmarked ==
    /\ pc = "get_payment"
    /\ LET payment_id == Val(payment).extra.id
           found == payment_id # None /\ Val(payment_id) \in DOMAIN payment_table
       IN IF ~found
          THEN /\ pc' = "idle" /\ outcome' = "not_found"
               /\ UNCHANGED bitcoinswitch_payment
          ELSE /\ pc' = "get_switch" /\ UNCHANGED outcome
               /\ bitcoinswitch_payment' = Some(payment_table[Val(payment_id)])
    /\ UNCHANGED <<payment, payload, sink>>
    /\ UNCHANGED <<payment_table, invoices, invoice_queue, delivered, response>>
    /\ UNCHANGED registry_vars
    /\ UNCHANGED quote_vars
    /\ UNCHANGED call_vars

\* on_invoice_paid without the check of tasks.py:116: the attribute payment_hash
\* of a missing row is read.
get_bitcoinswitch_payment_unguarded ==
    /\ pc = "get_payment"
    /\ LET payment_id == Val(payment).extra.id
           found == payment_id # None /\ Val(payment_id) \in DOMAIN payment_table
       IN IF ~found
          THEN /\ pc' = "idle" /\ outcome' = "AttributeError"
               /\ UNCHANGED bitcoinswitch_payment
          ELSE IF payment_table[Val(payment_id)].payment_hash = Some("paid")
          THEN /\ pc' = "idle" /\ outcome' = "already_processed"
               /\ UNCHANGED bitcoinswitch_payment
          ELSE /\ pc' = "get_switch" /\ UNCHANGED outcome
               /\ bitcoinswitch_payment' = Some(payment_table[Val(payment_id)])
    /\ UNCHANGED <<payment, payload, sink>>
    /\ UNCHANGED <<payment_table, invoices, invoice_queue, delivered, response>>
    /\ UNCHANGED registry_vars
    /\ UNCHANGED quote_vars
    /\ UNCHANGED call_vars

\* tasks.py:114-122: the row is read and the guards are applied.
get_bitcoinswitch_payment ==
    /\ pc = "get_payment"
    /\ LET payment_id == Val(payment).extra.id
           found == payment_id # None /\ Val(payment_id) \in DOMAIN payment_table
       IN IF ~found
          THEN /\ pc' = "idle" /\ outcome' = "not_found"
               /\ UNCHANGED bitcoinswitch_payment
          ELSE IF payment_table[Val(payment_id)].payment_hash = Some("paid")
          THEN /\ pc' = "idle" /\ outcome' = "already_processed"
               /\ UNCHANGED bitcoinswitch_payment
          ELSE /\ pc' = "get_switch" /\ UNCHANGED outcome
               /\ bitcoinswitch_payment' = Some(payment_table[Val(payment_id)])
    /\ UNCHANGED <<payment, payload, sink>>
    /\ UNCHANGED <<payment_table, invoices, invoice_queue, delivered, response>>
    /\ UNCHANGED registry_vars
    /\ UNCHANGED quote_vars
    /\ UNCHANGED call_vars

\* tasks.py:124-135: the device is read; the local row gets its new payment_hash.
get_bitcoinswitch ==
    /\ pc = "get_switch"
    /\ LET rec == Val(bitcoinswitch_payment)
       IN IF rec.bitcoinswitch_id \notin DOMAIN switch_table
          THEN /\ pc' = "idle" /\ outcome' = "no_switch"
               /\ bitcoinswitch_payment' = None
          ELSE /\ pc' = "update" /\ UNCHANGED outcome
               /\ bitcoinswitch_payment' = Some([rec EXCEPT !.payment_hash = rec.payload])
    /\ UNCHANGED <<payment, payload, sink>>
    /\ UNCHANGED <<payment_table, invoices, invoice_queue, delivered, response>>
    /\ UNCHANGED registry_vars
    /\ UNCHANGED quote_vars
    /\ UNCHANGED call_vars

\* tasks.py:136-162: the row is written, then the command is built.
update_bitcoinswitch_payment ==
    /\ pc = "update"
    /\ LET rec == Val(bitcoinswitch_payment)
           extra == Val(payment).extra
           duration == DurationPayload(rec, extra)
       IN /\ payment_table' = UpdatePayment(payment_table, rec)
          /\ IF duration.exc # ""
             THEN /\ pc' = "idle" /\ outcome' = duration.exc
                  /\ bitcoinswitch_payment' = None
                  /\ UNCHANGED payload
             ELSE /\ pc' = "dispatch" /\ UNCHANGED outcome
                  /\ UNCHANGED bitcoinswitch_payment
                  /\ payload' = Some(CommandPayload(rec.pin, duration.val, extra.comment))
    /\ UNCHANGED <<payment, sink>>
    /\ UNCHANGED <<invoices, invoice_queue, delivered, response>>
    /\ UNCHANGED registry_vars
    /\ UNCHANGED quote_vars
    /\ UNCHANGED call_vars

\* tasks.py:164-183: the call to the Activation Sink; it returns or it raises, and
\* what it raises is logged, re-raised and caught by the consumer's loop.
websocket_updater ==
    /\ pc = "dispatch"
    /\ sink' = Append(sink, [id |-> Val(bitcoinswitch_payment).bitcoinswitch_id,
                             payload |-> Val(payload),
                             payment_id |-> Val(bitcoinswitch_payment).id,
                             payment |-> Val(payment)])
    /\ \E ok \in BOOLEAN : outcome' = IF ok THEN "sent" ELSE "sink_error"
    /\ pc' = "idle"
    /\ bitcoinswitch_payment' = None
    /\ payload' = None
    /\ UNCHANGED payment
    /\ UNCHANGED <<payment_table, invoices, invoice_queue, delivered, response>>
    /\ UNCHANGED registry_vars
    /\ UNCHANGED quote_vars
    /\ UNCHANGED call_vars

(***************************************************************************)
(* views_lnurl.py: the quoting stage                                       *)
(***************************************************************************)
NoResponse ==
    [kind |-> "none", reason |-> "", minSendable |-> 0, maxSendable |-> 0,
     commentAllowed |-> 0, pr |-> "", message |-> "", disposable |-> FALSE]

LnurlErrorResponse(reason) == [NoResponse EXCEPT !.kind = "error", !.reason = reason]

LnurlPayResponse(minSendable, maxSendable, commentAllowed) ==
    [NoResponse EXCEPT !.kind = "pay", !.minSendable = minSendable,
                       !.maxSendable = maxSendable, !.commentAllowed = commentAllowed]

LnurlPayActionResponse(pr, message, disposable) ==
    [NoResponse EXCEPT !.kind = "action", !.pr = pr, !.message = message,
                       !.disposable = disposable]

\* A lookup that ignores the pin: the first switch of the device.
FindSwitchFirst(switches, pin) == IF switches = <<>> THEN None ELSE Some(switches[1])

\* next((_s for _s in switch.switches if _s.pin == int(pin)), None)
FindSwitch(switches, pin) ==
    LET hits == {i \in 1..Len(switches) : switches[i].pin = pin}
    IN IF hits = {} THEN None
       ELSE Some(switches[CHOOSE i \in hits : \A j \in hits : i <= j])

\* fiat_amount_as_satoshis(amount, currency), for a currency other than "sat".
fiat_amount_as_satoshis(amount) == amount * fiat_rate

\* The price of a switch in msat and the rate cache after pricing it
\* (lnurl_params 54-146, lnurl_callback 267-299).
PriceMsat(switch, a_switch) ==
    LET base_amount_sats == IF switch.currency # "sat"
                            THEN fiat_amount_as_satoshis(a_switch.amount)
                            ELSE a_switch.amount
        asset_priced == /\ TAPROOT_AVAILABLE
                        /\ a_switch.accepts_assets
                        /\ a_switch.accepted_asset_ids # <<>>
                        /\ switch.wallet \in Wallets
        looked == get_current_rate(a_switch.accepted_asset_ids[1], a_switch.amount)
    IN IF ~asset_priced
       THEN [msat |-> base_amount_sats * 1000, cache |-> rate_cache]
       ELSE IF looked.rate # None /\ Val(looked.rate).num > 0
            THEN [msat |-> (a_switch.amount * Val(looked.rate).num * 1000)
                               \div Val(looked.rate).den,
                  cache |-> looked.cache]
            ELSE [msat |-> base_amount_sats * 1000, cache |-> looked.cache]

\* An exception that leaves the handler: the request is answered with a server
\* error and no LNURL response.
UnhandledException(name) == [NoResponse EXCEPT !.kind = "exception", !.reason = name]

\* lnurl_params from the RFQ pricing to the response (75-195) for a switch that
\* was found: the response and the rate cache it leaves.
LnurlParamsQuote(switch, a_switch) ==
    LET price == PriceMsat(switch, a_switch)
        price_msat == price.msat
        variable_enabled == a_switch.variable /\ ~a_switch.accepts_assets
        max_sendable == IF variable_enabled THEN price_msat * 100
                        ELSE price_msat
    IN [response |-> LnurlPayResponse(price_msat, max_sendable,
                         IF a_switch.comment THEN 255 ELSE 0),
        cache |-> price.cache]

\* lnurl_params(bitcoinswitch_id, pin): the response and the rate cache it leaves.
\* The log message of line 68 reads switch_id, a name that is bound nowhere in
\* the function or the module (the parameter is bitcoinswitch_id): evaluating it
\* raises NameError, after the three checks and the base price and before the
\* RFQ pricing, so LnurlParamsQuote is never reached.
LnurlParams(bitcoinswitch_id, pin) ==
    IF bitcoinswitch_id \notin DOMAIN switch_table
    THEN [response |-> LnurlErrorResponse("bitcoinswitch " \o bitcoinswitch_id
                                          \o " not found on this server"),
          cache |-> rate_cache]
    ELSE LET switch == switch_table[bitcoinswitch_id]
             found == FindSwitch(switch.switches, pin)
         IN IF switch.disabled
            THEN [response |-> LnurlErrorResponse("bitcoinswitch " \o bitcoinswitch_id
                                                  \o " is disabled"),
                  cache |-> rate_cache]
            ELSE IF found = None
            THEN [response |-> LnurlErrorResponse("Switch with pin " \o ToString(pin)
                                                  \o " not found."),
                  cache |-> rate_cache]
            ELSE [response |-> UnhandledException("NameError"), cache |-> rate_cache]

\* One request GET /api/v1/lnurl/{bitcoinswitch_id}?pin=... and its answer.
lnurl_params_request(bitcoinswitch_id, pin) ==
    LET r == LnurlParams(bitcoinswitch_id, pin)
    IN /\ response' = r.response
       /\ rate_cache' = r.cache
       /\ UNCHANGED <<payment_table, invoices, invoice_queue, delivered>>
       /\ UNCHANGED <<now, rfq, fiat_rate, TAPROOT_AVAILABLE>>
       /\ UNCHANGED call_vars
       /\ UNCHANGED registry_vars
       /\ UNCHANGED consumer_vars

lnurl_params(ids) ==
    \E bitcoinswitch_id \in ids : \E pin \in Pins :
        lnurl_params_request(bitcoinswitch_id, pin)

\* create_invoice / create_taproot_invoice: the hash of the new invoice.
FreshHash(invs) == CHOOSE h \in Hashes \ DOMAIN invs : TRUE

\* The extra that lnurl_callback and handle_taproot_payment attach to an invoice:
\* {"tag": "Switch", "pin": pin, "comment": comment}.
InvoiceExtra(comment) == Extra(FALSE, None, Some("Switch"), FALSE, None, None, comment)

AddInvoice(invs, h, extra) ==
    [x \in DOMAIN invs \cup {h} |-> IF x = h THEN extra ELSE invs[x]]

PasswordIncorrect(switch, comment) ==
    switch.password # None /\ Val(switch.password) # "" /\ switch.password # comment

\* lnurl_callback 358-392: the Lightning invoice, the ledger row and the response.
\* full: no invoice hash or payment id is left in the model's universe.
LightningPayment(switch, pin, amount, comment, table, invs, cache) ==
    IF Hashes \ DOMAIN invs = {} \/ PayIds \ DOMAIN table = {}
    THEN [full |-> TRUE, response |-> NoResponse, table |-> table, invoices |-> invs,
          cache |-> cache]
    ELSE LET h == FreshHash(invs)
             sent == ToString(amount \div 1000) \o "sats sent"
             message == IF PasswordIncorrect(switch, comment)
                        THEN sent \o ", but password was incorrect! :("
                        ELSE sent
         IN [full |-> FALSE,
             response |-> LnurlPayActionResponse(h, message, switch.disposable),
             table |-> InsertPayment(table,
                          create_switch_payment(FreshId(table), h, switch.id, pin, amount)),
             invoices |-> AddInvoice(invs, h, InvoiceExtra(comment)),
             cache |-> cache]

\* handle_taproot_payment with the wallet looked up after the row is inserted:
\* the answer "Wallet not found" leaves a row behind.
handle_taproot_payment_late_check(switch, a_switch, pin, amount, comment, asset_id, invoice_ok, name_ok, cache) ==
    LET same == [full |-> FALSE, raised |-> FALSE, response |-> NoResponse,
                 table |-> payment_table, invoices |-> invoices, cache |-> cache]
    IN IF switch.wallet \in Wallets \/ PayIds \ DOMAIN payment_table = {}
       THEN [same EXCEPT !.raised = TRUE]
       ELSE [same EXCEPT
                !.response = LnurlErrorResponse("Wallet not found"),
                !.table = InsertPayment(payment_table,
                             create_switch_payment(FreshId(payment_table), "h1",
                                                   switch.id, pin, amount))]

\* handle_taproot_payment.  invoice_ok: create_taproot_invoice returned an invoice;
\* name_ok: the calls that follow the insertion of the row (get_asset_name and
\* the construction of the response, 490-507) returned.  raised: an exception
\* left the function.
handle_taproot_payment(switch, a_switch, pin, amount, comment, asset_id, invoice_ok, name_ok, cache) ==
    LET same == [full |-> FALSE, raised |-> FALSE, response |-> NoResponse,
                 table |-> payment_table, invoices |-> invoices, cache |-> cache]
    IN IF ~TAPROOT_AVAILABLE THEN [same EXCEPT !.raised = TRUE]
       ELSE IF switch.wallet \notin Wallets
       THEN [same EXCEPT !.response = LnurlErrorResponse("Wallet not found")]
       ELSE IF ~invoice_ok THEN [same EXCEPT !.raised = TRUE]
       ELSE IF Hashes \ DOMAIN invoices = {} \/ PayIds \ DOMAIN payment_table = {}
       THEN [same EXCEPT !.full = TRUE]
       ELSE LET asset_amount == a_switch.amount
                h == FreshHash(invoices)
                payment_record ==
                    [create_switch_payment(FreshId(payment_table), h, switch.id, pin, amount)
                        EXCEPT !.is_taproot = TRUE, !.asset_id = Some(asset_id),
                               !.asset_amount = Some(asset_amount)]
                message == IF PasswordIncorrect(switch, comment)
                           THEN "Password was incorrect! :("
                           ELSE ToString(asset_amount) \o " " \o asset_id \o " sent"
                made == [same EXCEPT
                            !.table = InsertPayment(payment_table, payment_record),
                            !.invoices = AddInvoice(invoices, h, InvoiceExtra(comment))]
            IN IF ~name_ok THEN [made EXCEPT !.raised = TRUE]
               ELSE [made EXCEPT !.response =
                        LnurlPayActionResponse(h, message, switch.disposable)]

\* The Taproot branch without the test of line 344: any asset_id is taken.
TaprootRequestedAnyAsset(a_switch, asset_id) ==
    /\ TAPROOT_AVAILABLE
    /\ Truthy(asset_id)
    /\ a_switch.accepts_assets

\* lnurl_callback 336-346: the conditions under which handle_taproot_payment is
\* called.
TaprootRequested(a_switch, asset_id) ==
    /\ TAPROOT_AVAILABLE
    /\ Truthy(asset_id)
    /\ a_switch.accepts_assets
    /\ \E i \in 1..Len(a_switch.accepted_asset_ids) :
           a_switch.accepted_asset_ids[i] = Val(asset_id)

\* lnurl_callback(switch_id, pin, amount, comment, asset_id): the response and the
\* tables it leaves.
LnurlCallback(switch_id, pin, amount, comment, asset_id, invoice_ok, name_ok) ==
    LET same == [full |-> FALSE, response |-> NoResponse, table |-> payment_table,
                 invoices |-> invoices, cache |-> rate_cache]
        err(reason) == [same EXCEPT !.response = LnurlErrorResponse(reason)]
    IN IF comment # None /\ Len(Val(comment)) > 255
       THEN err("Comment too long, max 255 characters.")
       ELSE IF amount = None \/ Val(amount) = 0 THEN err("No amount specified.")
       ELSE IF switch_id \notin DOMAIN switch_table THEN err("Switch not found.")
       ELSE LET switch == switch_table[switch_id]
                found == FindSwitch(switch.switches, pin)
            IN IF switch.disabled
               THEN err("bitcoinswitch " \o switch_id \o " is disabled")
               ELSE IF found = None
               THEN err("Switch with pin " \o ToString(pin) \o " not found.")
               ELSE IF ~switch.disposable /\ switch_id \notin connections
               THEN err("No active bitcoinswitch connections.")
               ELSE LET a_switch == Val(found)
                        price == PriceMsat(switch, a_switch)
                        expected_msat == price.msat
                        below == Val(amount) * 100 < expected_msat * 99
                        priced == [same EXCEPT !.cache = price.cache]
                        taproot == TaprootRequested(a_switch, asset_id)
                        tap == handle_taproot_payment(switch, a_switch, pin, Val(amount),
                                   comment, Val(asset_id), invoice_ok, name_ok, price.cache)
                    IN IF ~Truthy(asset_id) /\ below
                       THEN [priced EXCEPT !.response = LnurlErrorResponse(
                                "Amount " \o ToString(Val(amount)) \o " msat is below minimum "
                                \o ToString(expected_msat) \o " msat")]
                       ELSE IF taproot /\ ~tap.raised
                       THEN [full |-> tap.full, response |-> tap.response,
                             table |-> tap.table, invoices |-> tap.invoices,
                             cache |-> tap.cache]
                       ELSE IF taproot
                       THEN LightningPayment(switch, pin, Val(amount), comment,
                                             tap.table, tap.invoices, tap.cache)
                       ELSE LightningPayment(switch, pin, Val(amount), comment,
                                             payment_table, invoices, price.cache)

\* One request GET /api/v1/lnurl/cb/{switch_id}/{pin} and its answer.
lnurl_callback_request(switch_id, pin, amount, comment, asset_id, invoice_ok, name_ok) ==
    LET r == LnurlCallback(switch_id, pin, amount, comment, asset_id, invoice_ok, name_ok)
    IN /\ ~r.full
       /\ response' = r.response
       /\ payment_table' = r.table
       /\ invoices' = r.invoices
       /\ rate_cache' = r.cache
       /\ UNCHANGED <<invoice_queue, delivered>>
       /\ UNCHANGED <<now, rfq, fiat_rate, TAPROOT_AVAILABLE>>
       /\ UNCHANGED call_vars
       /\ UNCHANGED registry_vars
       /\ UNCHANGED consumer_vars

\* What the Taproot services do during one request: <<invoice_ok, name_ok>>.
TaprootServices == {<<TRUE, TRUE>>, <<TRUE, FALSE>>, <<FALSE, TRUE>>}

lnurl_callback(ids, amounts, comments, asset_ids) ==
    \E switch_id \in ids : \E pin \in Pins : \E amount \in amounts :
    \E comment \in comments : \E asset_id \in asset_ids :
    \E taproot_services \in TaprootServices :
        lnurl_callback_request(switch_id, pin, amount, comment, asset_id,
                               taproot_services[1], taproot_services[2])

(***************************************************************************)
(* The environment: the clock and the RFQ peer                             *)
(***************************************************************************)
tick ==
    /\ now < MaxTime
    /\ now' = now + 1
    /\ UNCHANGED <<rfq, rate_cache, fiat_rate, TAPROOT_AVAILABLE>>
    /\ UNCHANGED call_vars
    /\ UNCHANGED <<payment_table, invoices, invoice_queue, delivered, response>>
    /\ UNCHANGED registry_vars
    /\ UNCHANGED consumer_vars

\* The RFQ peer changes its price for an asset, or stops or starts answering.
rfq_change(asset_ids, prices) ==
    \E asset_id \in asset_ids : \E price \in prices :
        /\ rfq[asset_id] # price
        /\ rfq' = [rfq EXCEPT ![asset_id] = price]
        /\ UNCHANGED <<now, rate_cache, fiat_rate, TAPROOT_AVAILABLE>>
        /\ UNCHANGED call_vars
        /\ UNCHANGED <<payment_table, invoices, invoice_queue, delivered, response>>
        /\ UNCHANGED registry_vars
        /\ UNCHANGED consumer_vars

\* The quoting stage persists Quote{rate, now, asset_amount} on a payment row
\* (spec.md 4.1); the rate is the one get_current_rate returns.
persist_quote(asset_ids) ==
    \E id \in DOMAIN payment_table : \E asset_id \in asset_ids :
    \E asset_amount \in {1} :
        LET looked == get_current_rate(asset_id, asset_amount)
        IN /\ payment_table[id].quoted_rate = None
           /\ payment_table[id].payment_hash = Some(AwaitingHash)
           /\ looked.rate # None
           /\ payment_table' = [payment_table EXCEPT ![id] =
                  [@ EXCEPT !.quoted_rate = looked.rate, !.quoted_at = Some(utcnow),
                            !.asset_amount = Some(asset_amount),
                            !.asset_id = Some(asset_id)]]
           /\ rate_cache' = looked.cache
           /\ UNCHANGED <<now, rfq, fiat_rate, TAPROOT_AVAILABLE>>
           /\ UNCHANGED call_vars
           /\ UNCHANGED <<invoices, invoice_queue, delivered, response>>
           /\ UNCHANGED registry_vars
           /\ UNCHANGED consumer_vars

(***************************************************************************)
(* Calls of the pure functions of RateService                              *)
(***************************************************************************)
\* RateService.is_rate_within_tolerance(quoted_rate, current_rate, tolerance) is
\* called and returns.
call_is_rate_within_tolerance ==
    /\ result = None
    /\ result' = Some(is_rate_within_tolerance(Rate(args.quoted_rate, 1),
                                               Rate(args.current_rate, 1),
                                               args.tolerance_pct))
    /\ UNCHANGED args
    /\ UNCHANGED <<payment_table, invoices, invoice_queue, delivered, response>>
    /\ UNCHANGED registry_vars
    /\ UNCHANGED consumer_vars
    /\ UNCHANGED quote_vars

\* RateService.is_rate_expired(quoted_at) is called at the instant args.t and
\* returns.
call_is_rate_expired ==
    /\ result = None
    /\ result' = Some(is_rate_expired(args.quoted_at, args.t))
    /\ UNCHANGED args
    /\ UNCHANGED <<payment_table, invoices, invoice_queue, delivered, response>>
    /\ UNCHANGED registry_vars
    /\ UNCHANGED consumer_vars
    /\ UNCHANGED quote_vars

\* RateService.get_current_rate is called at the instant args.t, with the cache
\* entry args.cached and services that answer args.answer, and returns or raises.
call_get_current_rate ==
    /\ result = None
    /\ result' = Some(GetCurrentRate(args.cached, args.t, args.answer, args.asset_amount))
    /\ UNCHANGED args
    /\ UNCHANGED <<payment_table, invoices, invoice_queue, delivered, response>>
    /\ UNCHANGED registry_vars
    /\ UNCHANGED consumer_vars
    /\ UNCHANGED quote_vars

(***************************************************************************)
(* Concurrent calls of RateService.get_current_rate                        *)
(***************************************************************************)
\* In the specification of the cache, args is the state of the calls: the clock
\* in seconds and the callers that are suspended in the RFQ lookup; result is
\* what the last call that returned has returned.
Callers == {"c1", "c2"}

\* The clock advances while the callers are suspended or between two calls.
cache_clock(steps) ==
    \E d \in steps :
        /\ args.clock + d <= MaxClock
        /\ args' = [args EXCEPT !.clock = @ + d]
        /\ UNCHANGED result
        /\ UNCHANGED <<payment_table, invoices, invoice_queue, delivered, response>>
        /\ UNCHANGED registry_vars
        /\ UNCHANGED consumer_vars
        /\ UNCHANGED quote_vars

\* What a call returns: the rate, whether the cache served it, the entry it was
\* served from or has written, and the time of the return.
Returned(caller, rate, cached, entry, at) ==
    [caller |-> caller, rate |-> rate, cached |-> cached, entry |-> entry, at |-> at]

\* get_current_rate 33-39: a caller enters; it is served from the cache and
\* returns, or it goes on to the RFQ lookup and is suspended there.
get_current_rate_enter(caller, asset_id) ==
    /\ caller \notin args.pending
    /\ LET hit == CachedRate(rate_cache[asset_id], Datetime(args.clock, Some(0)))
       IN IF hit # None
          THEN /\ result' = Some(Returned(caller, hit, TRUE, rate_cache[asset_id],
                                          args.clock))
               /\ UNCHANGED args
          ELSE /\ args' = [args EXCEPT !.pending = @ \cup {caller}]
               /\ UNCHANGED result
    /\ UNCHANGED <<payment_table, invoices, invoice_queue, delivered, response>>
    /\ UNCHANGED registry_vars
    /\ UNCHANGED consumer_vars
    /\ UNCHANGED quote_vars

\* get_current_rate 97-130: the lookup of a suspended caller is answered; an
\* accepted quote is written to the cache with the time of the write and
\* returned, any failure returns None.
get_current_rate_leave(caller, asset_id) ==
    /\ caller \in args.pending
    /\ args' = [args EXCEPT !.pending = @ \ {caller}]
    /\ LET fetched == FetchRate(rfq[asset_id], 1, Datetime(args.clock, Some(0)))
       IN IF fetched = None
          THEN /\ result' = Some(Returned(caller, None, FALSE, None, args.clock))
               /\ UNCHANGED rate_cache
          ELSE /\ result' = Some(Returned(caller, Some(Val(fetched).rate), FALSE,
                                          fetched, args.clock))
               /\ rate_cache' = [rate_cache EXCEPT ![asset_id] = fetched]
    /\ UNCHANGED <<now, rfq, fiat_rate, TAPROOT_AVAILABLE>>
    /\ UNCHANGED <<payment_table, invoices, invoice_queue, delivered, response>>
    /\ UNCHANGED registry_vars
    /\ UNCHANGED consumer_vars

(***************************************************************************)
(* Value sets of the requests                                              *)
(***************************************************************************)
SwitchFixed == Switch(100, 3000, 1, FALSE, FALSE, FALSE, <<>>)
SwitchVariable == Switch(10, 5000, 3, TRUE, TRUE, FALSE, <<>>)
SwitchAsset == Switch(100, 1500, 1, FALSE, TRUE, TRUE, <<"a1">>)

CreateBitcoinswitch(wallet, currency, switches, password, disabled, disposable) ==
    [wallet |-> wallet, currency |-> currency, switches |-> switches,
     password |-> password, disabled |-> disabled, disposable |-> disposable]

PlainDevice == CreateBitcoinswitch("w1", "sat", <<SwitchFixed>>, None, FALSE, TRUE)

DeviceDatas ==
    {CreateBitcoinswitch("w1", "sat", <<SwitchFixed>>, Some("abc"), FALSE, TRUE),
     CreateBitcoinswitch("w1", "sat", <<SwitchAsset>>, Some("abc"), FALSE, TRUE)}

\* Confirmations of invoices that other parts of the LNbits instance created.
IgnoredExtras ==
    {Extra(FALSE, None, Some("lnurlp"), FALSE, None, None, None),
     Extra(TRUE, None, Some("Switch"), FALSE, None, None, None)}

FixedExtra(id) == Extra(FALSE, Some(id), Some("Switch"), FALSE, None, None, None)

FixedExtras == {FixedExtra(id) : id \in PayIds}

ExternalExtras ==
    {Extra(FALSE, Some(id), Some("Switch"), v, Some(20), None, None) :
        id \in PayIds, v \in BOOLEAN}
    \cup IgnoredExtras

\* Every shape of confirmation for the row "p1".
AllExtras ==
    {Extra(t, Some("p1"), Some("Switch"), v, a, aa, c) :
        t \in BOOLEAN, v \in BOOLEAN, a \in {None, Some(5), Some(20)},
        aa \in {None, Some(7)},
        c \in {None, Some(""), Some("hello"), Some("a-b")}}

AllRows ==
    {BitcoinswitchPayment("p1", Some(AwaitingHash), "d1", pl, pin, sats) :
        pl \in {None, Some("1500"), Some("3000"), Some("5000"), Some("paid")},
        pin \in Pins, sats \in {0, 8, 10, 100}}

CallbackAmounts == {Some(50000), Some(100000)}
CallbackComments == {Some("xyz"), Some("abc")}
CallbackAssetIds == {None, Some("a1")}
RfqPrices == {None, Some(2000), Some(2200)}

(***************************************************************************)
(* The specifications                                                      *)
(***************************************************************************)
Init ==
    /\ switch_table = <<>>
    /\ used_ids = {}
    /\ payment_table = <<>>
    /\ invoices = <<>>
    /\ connections = {}
    /\ invoice_queue = <<>>
    /\ delivered = 0
    /\ pc = "idle"
    /\ payment = None
    /\ bitcoinswitch_payment = None
    /\ payload = None
    /\ outcome = "none"
    /\ sink = <<>>
    /\ response = NoResponse
    /\ now = 0
    /\ rfq = [a \in AssetIds |-> None]
    /\ rate_cache = [a \in AssetIds |-> None]
    /\ fiat_rate = 2
    /\ TAPROOT_AVAILABLE = TRUE
    /\ args = None
    /\ result = None

on_invoice_paid ==
    \/ get_bitcoinswitch_payment
    \/ get_bitcoinswitch
    \/ update_bitcoinswitch_payment
    \/ websocket_updater

\* The settlement stage: the ledger, the listener and the consumer.
Next ==
    \/ api_bitcoinswitch_create({PlainDevice}, DevIds)
    \/ api_bitcoinswitch_delete
    \/ create_bitcoinswitch_payment({AwaitingHash}, {"3000"}, {1}, {100})
    \/ deliver(ExternalExtras, MaxDeliveries)
    \/ wait_for_paid_invoices
    \/ on_invoice_paid

Spec == Init /\ [][Next]_vars

\* One confirmation of any shape for one row of any shape.
InitPayload ==
    /\ switch_table = [d \in {"d1"} |->
           [id |-> "d1", wallet |-> "w1", currency |-> "sat", switches |-> <<SwitchFixed>>,
            password |-> None, disabled |-> FALSE, disposable |-> TRUE]]
    /\ used_ids = {"d1"}
    /\ \E row \in AllRows : payment_table = [p \in {"p1"} |-> row]
    /\ invoices = <<>>
    /\ connections = {}
    /\ \E e \in AllExtras : invoice_queue = <<[payment_hash |-> "hx", extra |-> e]>>
    /\ delivered = 1
    /\ pc = "idle"
    /\ payment = None
    /\ bitcoinswitch_payment = None
    /\ payload = None
    /\ outcome = "none"
    /\ sink = <<>>
    /\ response = NoResponse
    /\ now = 0
    /\ rfq = [a \in AssetIds |-> None]
    /\ rate_cache = [a \in AssetIds |-> None]
    /\ fiat_rate = 2
    /\ TAPROOT_AVAILABLE = TRUE
    /\ args = None
    /\ result = None

NextPayload ==
    \/ wait_for_paid_invoices
    \/ on_invoice_paid

SpecPayload == InitPayload /\ [][NextPayload]_vars

\* The whole pipeline: quote, callback, payment of the invoice, settlement.
InitPipeline ==
    /\ Init

NextPipeline ==
    \/ api_bitcoinswitch_create(DeviceDatas, {"d1"})
    \/ api_bitcoinswitch_delete
    \/ lnurl_params({"d1"})
    \/ lnurl_callback({"d1"}, CallbackAmounts, CallbackComments, CallbackAssetIds)
    \/ deliver({FixedExtra("p1")}, MaxPipelineDeliveries)
    \/ wait_for_paid_invoices
    \/ on_invoice_paid

SpecPipeline == InitPipeline /\ [][NextPipeline]_vars

\* The settlement stage under the scheduling of the event loop: a coroutine that
\* can run does run, so the consumer and every step of on_invoice_paid that
\* waits on this process's own storage is taken.  The Activation Sink is
\* outside the process and the call to it is awaited without a timeout
\* (tasks.py:166): nothing makes websocket_updater return.
SpecSink ==
    /\ Init
    /\ [][Next]_vars
    /\ WF_vars(wait_for_paid_invoices)
    /\ WF_vars(get_bitcoinswitch_payment)
    /\ WF_vars(get_bitcoinswitch)
    /\ WF_vars(update_bitcoinswitch_payment)

\* Settlement of rows that carry a quote.  A run of on_invoice_paid takes far less
\* than a tick of the clock: the clock and the RFQ peer move between two runs.
NextQuote ==
    \/ api_bitcoinswitch_create({PlainDevice}, DevIds)
    \/ create_bitcoinswitch_payment({AwaitingHash}, {"3000"}, {1}, {100})
    \/ persist_quote({"a1"})
    \/ (pc = "idle" /\ tick)
    \/ (pc = "idle" /\ rfq_change({"a1"}, RfqPrices))
    \/ deliver(FixedExtras, MaxQuoteDeliveries)
    \/ wait_for_paid_invoices
    \/ on_invoice_paid

SpecQuote == Init /\ [][NextQuote]_vars

\* The quoting stage alone: the registry, the clock, the RFQ peer and the two
\* LNURL handlers.
QuotingDatas ==
    {CreateBitcoinswitch("w1", "sat", <<SwitchFixed, SwitchVariable>>, None, FALSE, TRUE),
     CreateBitcoinswitch("w1", "usd", <<SwitchAsset, SwitchVariable>>, Some("abc"), FALSE, TRUE),
     CreateBitcoinswitch("w0", "usd", <<SwitchAsset>>, None, FALSE, TRUE)}

QuotingComments == {None, Some("abc")}

NextQuoting ==
    \/ api_bitcoinswitch_create(QuotingDatas, {"d1"})
    \/ api_bitcoinswitch_delete
    \/ tick
    \/ rfq_change({"a1"}, RfqPrices)
    \/ lnurl_params({"d1"})
    \/ lnurl_callback({"d1"}, CallbackAmounts, QuotingComments, CallbackAssetIds)

SpecQuoting == Init /\ [][NextQuoting]_vars

\* The registry alone: request bodies of every kind, valid or not, are sent
\* to the create and update endpoints.
SwitchAssetless == Switch(100, 1500, 1, FALSE, FALSE, TRUE, <<>>)
SwitchNegative == Switch(0 - 1, 1500, 1, FALSE, FALSE, FALSE, <<>>)

RegistryBodies ==
    {CreateBitcoinswitch("w1", currency, switches, None, disabled, TRUE) :
        currency \in {"sat", "usd"},
        switches \in {<<SwitchFixed>>, <<SwitchAsset>>, <<SwitchFixed, SwitchVariable>>,
                      <<SwitchFixed, SwitchAssetless>>, <<SwitchNegative>>, <<>>},
        disabled \in BOOLEAN}

NextRegistry ==
    \/ api_bitcoinswitch_create({data \in RegistryBodies : ValidCreateBitcoinswitch(data)},
                                DevIds)
    \/ api_bitcoinswitch_update({data \in RegistryBodies : ValidCreateBitcoinswitch(data)},
                                Wallets)
    \/ api_bitcoinswitch_delete

SpecRegistry == Init /\ [][NextRegistry]_vars

\* The choice between the Taproot and the Lightning path: a server with or
\* without the Taproot services, switches that accept an asset or none, and
\* callbacks that name no asset, an empty one, an accepted one or another one.
InitTaproot ==
    /\ switch_table = <<>>
    /\ used_ids = {}
    /\ payment_table = <<>>
    /\ invoices = <<>>
    /\ connections = {}
    /\ invoice_queue = <<>>
    /\ delivered = 0
    /\ pc = "idle"
    /\ payment = None
    /\ bitcoinswitch_payment = None
    /\ payload = None
    /\ outcome = "none"
    /\ sink = <<>>
    /\ response = NoResponse
    /\ now = 0
    /\ rfq = [a \in AssetIds |-> None]
    /\ rate_cache = [a \in AssetIds |-> None]
    /\ fiat_rate = 2
    /\ TAPROOT_AVAILABLE \in BOOLEAN
    /\ args = None
    /\ result = None

TaprootDatas ==
    {CreateBitcoinswitch("w1", "sat", <<SwitchFixed>>, None, FALSE, TRUE),
     CreateBitcoinswitch("w1", "sat", <<SwitchAsset>>, None, FALSE, TRUE),
     CreateBitcoinswitch("w0", "sat", <<SwitchAsset>>, None, FALSE, TRUE)}

TaprootAmounts == {Some(50000), Some(100000)}
TaprootComments == {None}
TaprootAssetIds == {None, Some(""), Some("a1"), Some("b2")}

NextTaproot ==
    \/ api_bitcoinswitch_create(TaprootDatas, {"d1"})
    \/ api_bitcoinswitch_delete
    \/ lnurl_callback({"d1"}, TaprootAmounts, TaprootComments, TaprootAssetIds)

SpecTaproot == InitTaproot /\ [][NextTaproot]_vars

\* Confirmations of other extensions and malformed Taproot confirmations, some
\* of them carrying the id of a record of the ledger, and the confirmation of
\* this extension for that record.
ForeignExtras ==
    {Extra(FALSE, None, None, FALSE, None, None, None),
     Extra(FALSE, None, Some("lnurlp"), FALSE, None, None, None),
     Extra(FALSE, Some("p1"), None, FALSE, None, None, None),
     Extra(FALSE, Some("p1"), Some("lnurlp"), FALSE, None, None, None),
     Extra(TRUE, None, Some("Switch"), FALSE, None, None, None),
     Extra(TRUE, Some(""), Some("Switch"), FALSE, None, None, None),
     FixedExtra("p1")}

NextForeign ==
    \/ api_bitcoinswitch_create({PlainDevice}, {"d1"})
    \/ create_bitcoinswitch_payment({AwaitingHash}, {"3000"}, {1}, {100})
    \/ deliver(ForeignExtras, MaxDeliveries)
    \/ wait_for_paid_invoices
    \/ on_invoice_paid

SpecForeign == Init /\ [][NextForeign]_vars

\* Settlement of rows that hold the sentinel "paid", from their creation or from
\* an earlier run that copied the payload "paid" into payment_hash.
NextGuard ==
    \/ api_bitcoinswitch_create({PlainDevice}, {"d1"})
    \/ api_bitcoinswitch_delete
    \/ create_bitcoinswitch_payment({AwaitingHash, "paid"}, {"3000", "paid"}, {1}, {100})
    \/ deliver(FixedExtras, MaxDeliveries)
    \/ wait_for_paid_invoices
    \/ on_invoice_paid

SpecGuard == Init /\ [][NextGuard]_vars

\* The validation of the requests: devices that are disabled, that need a
\* connection, or whose wallet is gone; requests without amount and with a
\* comment of 256 characters.
LongComment == "cccccccccccccccccccccccccccccccccccccccccccccccccccccccccccccccccccccccccccccccccccccccccccccccccccccccccccccccccccccccccccccccccccccccccccccccccccccccccccccccccccccccccccccccccccccccccccccccccccccccccccccccccccccccccccccccccccccccccccccccccccccccccccccccc"

ValidationDatas ==
    {CreateBitcoinswitch("w1", "sat", <<SwitchFixed>>, None, FALSE, TRUE),
     CreateBitcoinswitch("w1", "sat", <<SwitchFixed>>, None, TRUE, TRUE),
     CreateBitcoinswitch("w1", "sat", <<SwitchFixed>>, None, FALSE, FALSE),
     CreateBitcoinswitch("w0", "sat", <<SwitchAsset>>, None, FALSE, TRUE)}

ValidationAmounts == {None, Some(0), Some(50000), Some(100000)}
ValidationComments == {None, Some("abc"), Some(LongComment)}

NextValidation ==
    \/ api_bitcoinswitch_create(ValidationDatas, {"d1"})
    \/ api_bitcoinswitch_delete
    \/ websocket_connect
    \/ lnurl_params({"d1"})
    \/ lnurl_callback({"d1"}, ValidationAmounts, ValidationComments, CallbackAssetIds)

SpecValidation == Init /\ [][NextValidation]_vars

\* A call of a RateService function with arguments drawn from calls.
InitCall(calls) ==
    /\ switch_table = <<>>
    /\ used_ids = {}
    /\ payment_table = <<>>
    /\ invoices = <<>>
    /\ connections = {}
    /\ invoice_queue = <<>>
    /\ delivered = 0
    /\ pc = "idle"
    /\ payment = None
    /\ bitcoinswitch_payment = None
    /\ payload = None
    /\ outcome = "none"
    /\ sink = <<>>
    /\ response = NoResponse
    /\ now = 0
    /\ rfq = [a \in AssetIds |-> None]
    /\ rate_cache = [a \in AssetIds |-> None]
    /\ fiat_rate = 2
    /\ TAPROOT_AVAILABLE = TRUE
    /\ args \in calls
    /\ result = None

\* Rates in sats per unit and tolerances in percent.
ToleranceCalls ==
    [quoted_rate : {0 - 100, 0, 20, 100},
     current_rate : {0, 18, 19, 20, 21, 22, 94, 95, 96, 100, 104, 105, 106},
     tolerance_pct : {0, 5, 10}]

SpecTolerance == InitCall(ToleranceCalls) /\ [][call_is_rate_within_tolerance]_vars

\* Quotes around the boundary of the validity window, aware and naive.
ExpiryCalls ==
    [quoted_at : {None} \cup
         {Some(Datetime(wall, tz)) :
             wall \in {0, 400, 699, 700, 701, 1000, 1699, 1700, 1701, 4299, 4300, 4301,
                       5299, 5300, 5301},
             tz \in {None, Some(0), Some(3600)}},
     t : {Datetime(1000, Some(0)), Datetime(2000, Some(0))}]

SpecExpiry == InitCall(ExpiryCalls) /\ [][call_is_rate_expired]_vars

\* Calls of get_current_rate around the TTL of an entry written at 0, with every
\* answer of the services and with the asset amounts 0, 1 and 100.
RateCalls ==
    [cached : {None, Some([rate |-> Rate(2, 1), timestamp |-> Datetime(0, Some(0))])},
     t : {Datetime(59, Some(0)), Datetime(60, Some(0)), Datetime(61, Some(0))},
     answer : {Answer("no_peer", 0), Answer("no_quote", 0), Answer("exception", 0),
               Answer("quote", 2000), Answer("quote", 2200)},
     asset_amount : {0, 1, 100}]

SpecLookup == InitCall(RateCalls) /\ [][call_get_current_rate]_vars

\* Two callers of get_current_rate for the asset "a1", the RFQ peer and a clock
\* whose steps put two instants 59, 60 and 61 seconds apart.
ClockSteps == {29, 30, 31}

NextCache ==
    \/ cache_clock(ClockSteps)
    \/ rfq_change({"a1"}, RfqPrices)
    \/ \E caller \in Callers : get_current_rate_enter(caller, "a1")
    \/ \E caller \in Callers : get_current_rate_leave(caller, "a1")

SpecCache == InitCall({[clock |-> 0, pending |-> {}]}) /\ [][NextCache]_vars

(***************************************************************************)
(* Properties of the settlement stage (Spec)                               *)
(***************************************************************************)
\* C1: the same confirmation delivered to on_invoice_paid two or more times makes
\* the Activation Sink be called at most once for its record.
C1_SinkAtMostOnce ==
    \A i, j \in 1..Len(sink) :
        (sink[i].payment = sink[j].payment /\ sink[i].payment_id = sink[j].payment_id)
            => i = j

\* C2: the settlement stage moves a record's payment_hash away from its
\* creation-time value at most once: whenever it is about to write a record, the
\* record still holds its creation-time payment_hash (a record that was written is
\* recognised by the guard and never written again).
C2_WrittenAtMostOnce ==
    pc = "update" =>
        payment_table[Val(bitcoinswitch_payment).id].payment_hash = Some(AwaitingHash)

\* C4: no reachable state has a record marked by the settlement stage while the
\* Activation Sink has not been called for it.
C4_MarkedOnlyAfterSink ==
    \A id \in DOMAIN payment_table :
        payment_table[id].payment_hash # Some(AwaitingHash)
            => \E i \in 1..Len(sink) : sink[i].payment_id = id

(***************************************************************************)
(* Properties of the command payload (SpecPayload)                         *)
(***************************************************************************)
\* The amount on_invoice_paid scales a variable-time payment by.
ReceivedAmount(extra) ==
    IF extra.is_taproot
    THEN IF extra.asset_amount # None THEN Val(extra.asset_amount)
         ELSE IF extra.amount # None THEN Val(extra.amount) ELSE 0
    ELSE Val(extra.amount)

\* "-<comment>" for a comment that was supplied, nothing otherwise.
CommentSuffix(extra) ==
    IF extra.comment = None \/ extra.comment = Some("") THEN ""
    ELSE "-" \o Val(extra.comment)

\* C5: the string sent to the Activation Sink is "<pin>-<duration>" without a
\* comment and "<pin>-<duration>-<comment>" with one, the comment verbatim:
\* pin 3, duration 1500 gives "3-1500", "3-1500-hello" and "3-1500-a-b".
C5_PayloadFormat ==
    \A i \in 1..Len(sink) :
        LET extra == sink[i].payment.extra
            row == payment_table[sink[i].payment_id]
        IN /\ ~extra.variable =>
                sink[i].payload = ToString(row.pin) \o "-" \o PyStr(row.payload)
                                      \o CommentSuffix(extra)
           /\ (~extra.variable /\ row.pin = 3 /\ row.payload = Some("1500")) =>
                /\ extra.comment = None => sink[i].payload = "3-1500"
                /\ extra.comment = Some("hello") => sink[i].payload = "3-1500-hello"
                /\ extra.comment = Some("a-b") => sink[i].payload = "3-1500-a-b"

C5_Witness ==
    /\ Len(sink) = 1
    /\ sink[1].payload = "3-1500-hello"
    /\ sink[1].payment.extra.comment = Some("hello")

\* C6 as stated: a variable-time payment with a positive base price carries the
\* duration round(amount / price * duration) written as an integer; price 10 and
\* duration 5000 give 10000 for 20 sats and 2500 for 5 sats.
C6_RoundedInteger ==
    \A i \in 1..Len(sink) :
        LET extra == sink[i].payment.extra
            row == payment_table[sink[i].payment_id]
        IN (extra.variable /\ ~extra.is_taproot /\ row.sats = 10
                /\ row.payload = Some("5000")) =>
                /\ extra.amount = Some(20) =>
                       sink[i].payload = ToString(row.pin) \o "-10000" \o CommentSuffix(extra)
                /\ extra.amount = Some(5) =>
                       sink[i].payload = ToString(row.pin) \o "-2500" \o CommentSuffix(extra)

\* C7: a variable-time payment whose base price is 0 raises no exception and is
\* dispatched with the raw confirmed amount as its duration.
C7_ZeroPriceFallback ==
    (/\ pc = "idle"
     /\ payment # None
     /\ Val(payment).extra.variable
     /\ payment_table["p1"].sats = 0
     /\ (Val(payment).extra.is_taproot \/ Val(payment).extra.amount # None)) =>
        /\ outcome \in {"sent", "sink_error"}
        /\ Len(sink) = 1
        /\ sink[1].payment = Val(payment)
        /\ sink[1].payload = ToString(payment_table["p1"].pin) \o "-"
                                 \o ToString(ReceivedAmount(Val(payment).extra))
                                 \o CommentSuffix(Val(payment).extra)

C7_Witness ==
    /\ outcome = "sent"
    /\ payment_table["p1"].sats = 0
    /\ Len(sink) = 1
    /\ sink[1].payment.extra.variable
    /\ sink[1].payment.extra.amount = Some(20)
    /\ sink[1].payload = "1-20"

(***************************************************************************)
(* Properties of the whole pipeline (SpecPipeline)                         *)
(***************************************************************************)
\* The confirmation the invoice listener delivers for the invoice with hash h.
Confirmation(h) == [payment_hash |-> h, extra |-> invoices[h]]

\* The run of on_invoice_paid for the confirmation of invoice h has ended.
Settled(h) == pc = "idle" /\ outcome # "none" /\ payment = Some(Confirmation(h))

\* The calls the Activation Sink received for the confirmation of invoice h.
SinkCalls(h) == {i \in 1..Len(sink) : sink[i].payment = Confirmation(h)}

Dispatches == Len(sink') > Len(sink)

\* The rate the oracle gives at settlement for the asset of the row in hand.
FreshRate ==
    get_current_rate(Val(Val(bitcoinswitch_payment).asset_id),
                     Val(Val(bitcoinswitch_payment).asset_amount)).rate

\* C9: for a record that carries a quote, the Activation Sink is called only if
\* the quote is not expired and the fresh rate is within tolerance of the quoted
\* rate; an expired quote is rejected even when the rate has not moved.
C9_QuoteRevalidated ==
    [][(Dispatches /\ Val(bitcoinswitch_payment).quoted_rate # None) =>
           /\ ~is_rate_expired(Val(bitcoinswitch_payment).quoted_at, utcnow)
           /\ FreshRate # None =>
                  is_rate_within_tolerance(Val(Val(bitcoinswitch_payment).quoted_rate),
                                           Val(FreshRate), RATE_TOLERANCE_PCT)]_vars

\* C10: for a record that carries a quote, the Activation Sink is not called
\* when the oracle gives no fresh rate at settlement.
C10_UnverifiableRejected ==
    [][(Dispatches /\ Val(bitcoinswitch_payment).quoted_rate # None) =>
           FreshRate # None]_vars

(***************************************************************************)
(* Properties of the rate reconciler (SpecTolerance, SpecExpiry)           *)
(***************************************************************************)
\* |current - quoted| of a call of is_rate_within_tolerance.
AbsMove == IF args.current_rate >= args.quoted_rate
           THEN args.current_rate - args.quoted_rate
           ELSE args.quoted_rate - args.current_rate

\* C11: is_rate_within_tolerance(quoted, current, tol) is False whenever
\* quoted <= 0 and otherwise True exactly when |current - quoted| / quoted <= tol,
\* upward and downward alike: (100, 104, 5%) and (100, 96, 5%) are True,
\* (100, 106, 5%) and (0, 100, 5%) are False.
C11_ToleranceSymmetric ==
    result # None =>
        /\ Val(result) = (/\ args.quoted_rate > 0
                          /\ AbsMove * 100 <= args.tolerance_pct * args.quoted_rate)
        /\ args = [quoted_rate |-> 100, current_rate |-> 104, tolerance_pct |-> 5]
               => Val(result) = TRUE
        /\ args = [quoted_rate |-> 100, current_rate |-> 106, tolerance_pct |-> 5]
               => Val(result) = FALSE
        /\ args = [quoted_rate |-> 100, current_rate |-> 96, tolerance_pct |-> 5]
               => Val(result) = TRUE
        /\ args = [quoted_rate |-> 0, current_rate |-> 100, tolerance_pct |-> 5]
               => Val(result) = FALSE

C11_Witness ==
    /\ args = [quoted_rate |-> 100, current_rate |-> 94, tolerance_pct |-> 5]
    /\ result = Some(FALSE)

\* The age in seconds of the quote of a call of is_rate_expired, a naive
\* quoted_at being read as UTC.
QuoteAge ==
    args.t.wall - (Val(args.quoted_at).wall
                     - (IF Val(args.quoted_at).tz = None THEN 0
                        ELSE Val(Val(args.quoted_at).tz)))

\* C12 as stated: a quote whose age equals the validity window (300 s) is
\* reported expired, and one whose age is one second less is not.
C12_BoundaryExpired ==
    (result # None /\ args.quoted_at # None) =>
        /\ QuoteAge = 300 => Val(result) = TRUE
        /\ QuoteAge = 299 => Val(result) = FALSE

\* C12 amended: a quote whose age equals the validity window is reported not
\* expired, as is one a second younger; one a second older is reported expired.
C12_BoundaryNotExpired ==
    (result # None /\ args.quoted_at # None) =>
        /\ QuoteAge = 300 => Val(result) = FALSE
        /\ QuoteAge = 299 => Val(result) = FALSE
        /\ QuoteAge = 301 => Val(result) = TRUE

C12_Witness ==
    /\ args.quoted_at = Some(Datetime(700, Some(0)))
    /\ args.t = Datetime(1000, Some(0))
    /\ result = Some(FALSE)

\* C13: is_rate_expired(quoted_at) is True when quoted_at is absent and otherwise
\* True exactly when now - quoted_at is strictly greater than the validity
\* window, a naive quoted_at being read as UTC.
C13_ExpiredIffOlder ==
    result # None =>
        Val(result) = (args.quoted_at = None
                         \/ QuoteAge > RATE_VALIDITY_MINUTES * 60)

C13_Witness ==
    /\ args.quoted_at = Some(Datetime(701, None))
    /\ args.t = Datetime(1000, Some(0))
    /\ result = Some(FALSE)

(***************************************************************************)
(* Properties of the quoting stage (SpecQuoting)                           *)
(***************************************************************************)
\* The switch of the enabled device "d1" that has the given pin, if any.
Configured(pin) ==
    IF "d1" \in DOMAIN switch_table /\ ~switch_table["d1"].disabled
    THEN FindSwitch(switch_table["d1"].switches, pin)
    ELSE None

\* C14: a quote request (lnurl_params) for a configured switch is answered with
\* the range minSendable = maxSendable = base price when the switch has no
\* variable time, and minSendable = base price, maxSendable = base price x 360
\* when it has.
C14_AmountRange ==
    [][\A pin \in Pins :
          (lnurl_params_request("d1", pin) /\ Configured(pin) # None) =>
              LET a_switch == Val(Configured(pin))
                  base == PriceMsat(switch_table["d1"], a_switch).msat
              IN /\ response'.kind = "pay"
                 /\ response'.minSendable = base
                 /\ response'.maxSendable =
                        IF a_switch.variable THEN base * 360 ELSE base]_vars

CurrencyPriceMsat(a_switch) ==
    (IF switch_table["d1"].currency # "sat"
     THEN fiat_amount_as_satoshis(a_switch.amount)
     ELSE a_switch.amount) * 1000

\* The answer of the rate oracle for the first accepted asset of a switch.
Lookup(a_switch) == get_current_rate(a_switch.accepted_asset_ids[1], a_switch.amount).rate

\* C16: for a switch that accepts assets, when the rate oracle is unavailable (the
\* device's wallet is missing or the lookup returns no rate) the quote request
\* is still answered with a range, the currency-derived price, never an error.
C16_OracleFallback ==
    [][\A pin \in Pins :
          (/\ lnurl_params_request("d1", pin)
           /\ Configured(pin) # None
           /\ Val(Configured(pin)).accepts_assets
           /\ \/ switch_table["d1"].wallet \notin Wallets
              \/ Lookup(Val(Configured(pin))) = None)
              => /\ response'.kind = "pay"
                 /\ response'.minSendable = CurrencyPriceMsat(Val(Configured(pin)))]_vars

\* C17: for a switch that accepts assets, when the rate lookup succeeds the quote
\* request is answered with the range asset_amount x rate, and the record that is
\* created for the payment carries the quote (quoted_rate = the rate, quoted_at =
\* now, asset_amount).
C17_QuotePersisted ==
    [][\A pin \in Pins :
          (/\ Configured(pin) # None
           /\ Val(Configured(pin)).accepts_assets
           /\ TAPROOT_AVAILABLE
           /\ switch_table["d1"].wallet \in Wallets
           /\ Lookup(Val(Configured(pin))) # None) =>
              LET a_switch == Val(Configured(pin))
                  rate == Val(Lookup(a_switch))
              IN /\ lnurl_params_request("d1", pin) =>
                        /\ response'.kind = "pay"
                        /\ response'.minSendable =
                               (a_switch.amount * rate.num * 1000) \div rate.den
                 /\ \A amount \in CallbackAmounts : \A comment \in QuotingComments :
                        (/\ lnurl_callback_request("d1", pin, amount, comment,
                                                   Some("a1"), TRUE, TRUE)
                         /\ response'.kind = "action") =>
                            \A id \in DOMAIN payment_table' \ DOMAIN payment_table :
                                /\ payment_table'[id].quoted_rate = Some(rate)
                                /\ payment_table'[id].quoted_at = Some(utcnow)
                                /\ payment_table'[id].asset_amount
                                       = Some(a_switch.amount)]_vars

C20_NoHeadOfLineBlocking ==
    (/\ pc \notin {"idle", "get_payment"}
     /\ invoice_queue # <<>>
     /\ Head(invoice_queue).extra.id # None
     /\ Val(Head(invoice_queue).extra.id) \in DOMAIN payment_table
     /\ payment_table[Val(Head(invoice_queue).extra.id)].bitcoinswitch_id
            # Val(bitcoinswitch_payment).bitcoinswitch_id)
        => ENABLED wait_for_paid_invoices

\* C21: at most one run of on_invoice_paid is in progress at any time: the
\* consumer takes a confirmation from the queue only when no run is in progress,
\* and the one it takes is the oldest one of the queue.
C21_OneRunAtATime ==
    [][Len(invoice_queue') < Len(invoice_queue) =>
           /\ pc = "idle"
           /\ payment' = Some(Head(invoice_queue))
           /\ invoice_queue' = Tail(invoice_queue)]_vars

C21_Witness ==
    /\ pc = "update"
    /\ invoice_queue # <<>>
    /\ Head(invoice_queue).extra.id = Val(payment).extra.id

\* C22: a call to the Activation Sink that never returns does not stall the
\* settlement stage: the run that made the call comes to an end, and every
\* confirmation that is in the queue is eventually taken.
C22_HungCallAbandoned ==
    /\ (pc = "dispatch") ~> (pc = "idle")
    /\ (invoice_queue # <<>>) ~> (invoice_queue = <<>>)

\* C23: when the call to the Activation Sink fails for a confirmation, the record
\* of that confirmation is marked terminal (its payment_hash is the sentinel
\* "paid") once the run has ended, and the consumer is ready to take the next
\* confirmation of the queue.
C23_SinkFailureStillTerminal ==
    (pc = "idle" /\ outcome = "sink_error") =>
        /\ payment_table[Val(Val(payment).extra.id)].payment_hash = Some("paid")
        /\ invoice_queue # <<>> => ENABLED wait_for_paid_invoices

\* The correlation id of the confirmation in hand resolves to no record.
Unresolved ==
    \/ Val(payment).extra.id = None
    \/ Val(Val(payment).extra.id) \notin DOMAIN payment_table

\* C24: when the correlation id of a confirmation resolves to no record, the run
\* ends at the lookup: no record is written, the Activation Sink is not called,
\* no exception is raised, and the consumer is free for the next confirmation.
C24_MissingRecordDropped ==
    [][(pc = "get_payment" /\ pc' # pc /\ Unresolved) =>
           /\ pc' = "idle"
           /\ outcome' = "not_found"
           /\ payment_table' = payment_table
           /\ sink' = sink
           /\ invoice_queue' = invoice_queue]_vars

C24_Witness ==
    /\ pc = "idle"
    /\ outcome = "not_found"
    /\ Unresolved
    /\ invoice_queue # <<>>
    /\ ENABLED wait_for_paid_invoices

\* The switch that (device_id, pin) of a record resolves to, if any.
ResolvedSwitch(row) ==
    IF row.bitcoinswitch_id \in DOMAIN switch_table
    THEN FindSwitch(switch_table[row.bitcoinswitch_id].switches, row.pin)
    ELSE None

\* C25: a record whose (device_id, pin) resolves to no switch, because the device
\* is gone or has no switch with that pin, is not updated by the settlement
\* stage, and the Activation Sink is not called for it.
C25_SwitchResolvedByPin ==
    \A id \in DOMAIN payment_table :
        ResolvedSwitch(payment_table[id]) = None =>
            /\ payment_table[id].payment_hash = Some(AwaitingHash)
            /\ \A i \in 1..Len(sink) : sink[i].payment_id # id

\* C29: for a fixed-time payment the duration in the command that is sent equals
\* the duration configured on the switch that (device_id, pin) resolves to.
C29_FixedDurationFromSwitch ==
    \A i \in 1..Len(sink) :
        LET extra == sink[i].payment.extra
            row == payment_table[sink[i].payment_id]
        IN (~extra.variable /\ ResolvedSwitch(row) # None) =>
               sink[i].payload = ToString(row.pin) \o "-"
                                     \o ToString(Val(ResolvedSwitch(row)).duration)
                                     \o CommentSuffix(extra)

(***************************************************************************)
(* Properties of the validation of the requests (SpecValidation)           *)
(***************************************************************************)
\* C26: a quote-time request that is answered with an error leaves the payment
\* ledger and the switch registry as they were and creates no invoice.
C26_ErrorsMutateNothing ==
    [][(/\ \/ lnurl_params({"d1"})
           \/ lnurl_callback({"d1"}, ValidationAmounts, ValidationComments,
                             CallbackAssetIds)
        /\ response'.kind = "error") =>
           /\ payment_table' = payment_table
           /\ invoices' = invoices
           /\ switch_table' = switch_table
           /\ used_ids' = used_ids]_vars

C26_Witness ==
    /\ response.kind = "error"
    /\ response.reason = "Wallet not found"
    /\ payment_table = <<>>
    /\ invoices = <<>>

(***************************************************************************)
(* Properties of the idempotence guard (SpecGuard)                         *)
(***************************************************************************)
\* C27: when the record of a confirmation already holds the sentinel "paid" in
\* payment_hash, the run ends at the guard: the switch is not looked up, the
\* record is not updated and the Activation Sink is not called.
C27_PaidRecordSkipped ==
    [][(/\ pc = "get_payment"
        /\ pc' # pc
        /\ ~Unresolved
        /\ payment_table[Val(Val(payment).extra.id)].payment_hash = Some("paid")) =>
           /\ pc' = "idle"
           /\ outcome' = "already_processed"
           /\ payment_table' = payment_table
           /\ sink' = sink]_vars

C27_Witness ==
    /\ pc = "idle"
    /\ outcome = "already_processed"
    /\ payment_table[Val(Val(payment).extra.id)].payment_hash = Some("paid")
    /\ payment_table[Val(Val(payment).extra.id)].bitcoinswitch_id \notin DOMAIN switch_table
    /\ sink = <<>>

(***************************************************************************)
(* Properties of the correlation of invoice and record (SpecPipeline)      *)
(***************************************************************************)
\* The records that were created together with the invoice h.
RecordsOf(h) == {id \in DOMAIN payment_table : payment_table[id].payment_hash = Some(h)}

EntryAge == args.clock - Val(rate_cache["a1"]).timestamp.wall

\* C30: get_current_rate returns the cached rate exactly when the entry was
\* written less than RATE_REFRESH_SECONDS ago; with an entry at or past that age,
\* or none, it makes a fresh lookup; a successful lookup overwrites the entry of
\* the asset with the rate and the time of the write; and whatever a caller is
\* served from the cache is younger than the TTL, other callers being suspended
\* in their lookups or not.
C30_CacheWithinTtl ==
    [][\A caller \in Callers :
          /\ (/\ get_current_rate_enter(caller, "a1")
              /\ rate_cache["a1"] # None
              /\ EntryAge < RATE_REFRESH_SECONDS) =>
                 /\ result' = Some(Returned(caller, Some(Val(rate_cache["a1"]).rate),
                                            TRUE, rate_cache["a1"], args.clock))
                 /\ args' = args
          /\ (/\ get_current_rate_enter(caller, "a1")
              /\ (rate_cache["a1"] = None \/ EntryAge >= RATE_REFRESH_SECONDS)) =>
                 /\ caller \in args'.pending
                 /\ result' = result
          /\ (get_current_rate_leave(caller, "a1") /\ rfq["a1"] # None) =>
                 /\ rate_cache'["a1"] # None
                 /\ Val(rate_cache'["a1"]).timestamp = Datetime(args.clock, Some(0))
                 /\ Val(result').rate = Some(Val(rate_cache'["a1"]).rate)
                 /\ Val(rate_cache'["a1"]).rate = Rate(Val(rfq["a1"]), 1000)
          /\ (get_current_rate_leave(caller, "a1") /\ rfq["a1"] = None) =>
                 /\ rate_cache' = rate_cache
                 /\ Val(result').rate = None
          /\ (result' # None /\ Val(result').cached) =>
                 Val(result').at - Val(Val(result').entry).timestamp.wall
                     < RATE_REFRESH_SECONDS]_vars

C30_Witness ==
    /\ result # None
    /\ Val(result).cached
    /\ Val(result).caller = "c2"
    /\ Val(result).at - Val(Val(result).entry).timestamp.wall = 59
    /\ "c1" \in args.pending

(***************************************************************************)
(* Properties of the switch registry (SpecRegistry)                        *)
(***************************************************************************)
\* C31: every stored switch that accepts assets has a non-empty list of accepted
\* asset ids.
C31_AssetSwitchHasAssets ==
    \A id \in DOMAIN switch_table :
        \A i \in 1..Len(switch_table[id].switches) :
            switch_table[id].switches[i].accepts_assets
                => switch_table[id].switches[i].accepted_asset_ids # <<>>

(***************************************************************************)
(* Frame of a run of on_invoice_paid (Spec)                                *)
(***************************************************************************)
\* C32: a step of a run of on_invoice_paid leaves the device table and the set
\* of records as they are, and changes no record except that the step that
\* writes may change the payment_hash, and nothing else, of the record the run
\* resolved.
C32_RunWritesOnlyPaymentHash ==
    [][(wait_for_paid_invoices \/ on_invoice_paid) =>
          /\ switch_table' = switch_table
          /\ used_ids' = used_ids
          /\ DOMAIN payment_table' = DOMAIN payment_table
          /\ \A id \in DOMAIN payment_table :
                \/ payment_table'[id] = payment_table[id]
                \/ /\ pc = "update"
                   /\ id = Val(bitcoinswitch_payment).id
                   /\ payment_table'[id] =
                          [payment_table[id] EXCEPT
                              !.payment_hash = payment_table'[id].payment_hash]]_vars

\* A run has written its record while another record is in the ledger.
C32_Witness ==
    /\ pc = "dispatch"
    /\ Cardinality(DOMAIN payment_table) = 2
    /\ Val(bitcoinswitch_payment).id \in DOMAIN payment_table
    /\ payment_table[Val(bitcoinswitch_payment).id].payment_hash = Some("3000")

(***************************************************************************)
(* Properties of lnurl_callback (SpecQuoting, SpecValidation)              *)
(***************************************************************************)
\* The rows a step inserts that are not marked is_taproot: the records of the
\* Lightning invoices it created.
LightningRows ==
    {id \in DOMAIN payment_table' \ DOMAIN payment_table : ~payment_table'[id].is_taproot}

C34_QuotedMinimumAccepted ==
    [][\A pin \in Pins :
          (/\ lnurl_params_request("d1", pin)
           /\ Configured(pin) # None
           /\ ~Val(Configured(pin)).accepts_assets)
              => /\ response'.kind = "pay"
                 /\ LnurlCallback("d1", pin, Some(response'.minSendable), None, None,
                                  TRUE, TRUE).response.kind = "action"]_vars

C37_ForeignConfirmationIgnored ==
    [][(/\ Len(invoice_queue') < Len(invoice_queue)
        /\ LET extra == Head(invoice_queue).extra
           IN \/ ~extra.is_taproot /\ extra.tag # Some("Switch")
              \/ extra.is_taproot /\ extra.id \in {None, Some("")}) =>
           /\ pc' = "idle"
           /\ outcome' = "ignored"
           /\ bitcoinswitch_payment' = bitcoinswitch_payment
           /\ payment_table' = payment_table
           /\ sink' = sink]_vars

\* A confirmation of another extension that carries the id of a record has been
\* ignored: the record still awaits its confirmation.
C37_Witness ==
    /\ pc = "idle"
    /\ outcome = "ignored"
    /\ Val(payment).extra.tag = Some("lnurlp")
    /\ Val(payment).extra.id = Some("p1")
    /\ "p1" \in DOMAIN payment_table
    /\ payment_table["p1"].payment_hash = Some(AwaitingHash)
    /\ sink = <<>>

(***************************************************************************)
(* The range quoted for a switch that accepts assets (SpecQuoting)         *)
(***************************************************************************)
\* C38: a quote request for a configured switch that accepts assets is answered
\* with a range whose maxSendable equals its minSendable, also when the switch
\* has variable time.
C38_AssetSwitchFixedRange ==
    [][\A pin \in Pins :
          (/\ lnurl_params_request("d1", pin)
           /\ Configured(pin) # None
           /\ Val(Configured(pin)).accepts_assets)
              => /\ response'.kind = "pay"
                 /\ response'.maxSendable = response'.minSendable]_vars

(***************************************************************************)
(* Failures of the rate lookup (SpecLookup)                                *)
(***************************************************************************)
\* C39: no call of get_current_rate raises; a call that is not served from the
\* cache and whose lookup fails (no peer, no accepted quote, an exception in
\* one of the services or in the arithmetic) returns None and leaves the cache
\* entry as it was.
C39_LookupFailureReturnsNone ==
    result # None =>
        /\ ~Val(result).raised
        /\ (/\ \/ args.cached = None
                \/ args.t.wall - Val(args.cached).timestamp.wall >= RATE_REFRESH_SECONDS
             /\ \/ args.answer.kind # "quote"
                \/ args.asset_amount = 0) =>
                /\ Val(result).rate = None
                /\ Val(result).entry = args.cached

\* A service raised during the lookup of a call that found a stale entry: the
\* call returned None and the stale entry is still in the cache.
C39_Witness ==
    /\ result # None
    /\ args.answer.kind = "exception"
    /\ args.cached # None
    /\ args.t.wall = 61
    /\ Val(result).rate = None
    /\ Val(result).entry = args.cached

====
